---------------------------- MODULE Spec2Model ----------------------------
(***************************************************************************)
(* A model of the NIST randomness-beacon wrapper (package beacon,          *)
(* src/gonistbeacon.go): the record retrieval / verification pipeline      *)
(* (getRecord and the five public lookups) and the seeded generator Rand   *)
(* (NewRand, NewUpdatedRand, SetSeed, Int).                                *)
(*                                                                         *)
(* Go strings and byte slices are sequences of byte values (a Go string    *)
(* is a byte sequence); big.Int is a sign and a magnitude in base 16       *)
(* without leading zero digits; an int64 is its 64-bit pattern, written    *)
(* as 16 base-16 digits; a time.Time is either the zero Time or a number   *)
(* of Unix seconds.                                                        *)
(***************************************************************************)
EXTENDS Integers, Sequences, FiniteSets, TLC

VARIABLES
    now,        \* the wall clock, in Unix seconds (time.Now().Unix())
    req,        \* the last public lookup: operation, argument, time of call
    resp,       \* what the transport delivered for it
    ret,        \* what getRecord returned to the caller: (Record, error)
    panicked,   \* the process was aborted by a panic
    rnd         \* the generators (objects of type Rand), by name

vars == <<now, req, resp, ret, panicked, rnd>>

(***************************************************************************)
(* Program constants and bounds of the model.                              *)
(***************************************************************************)
StaleSeconds == 60     \* getRecord: now - timestamp > 60 is stale
Minute == 60           \* Rand.Int: updateTime.Add(time.Minute * 1), in seconds
ShiftBits == 448       \* NewRand / Int: Rsh(&SeedValue, 448)
Day == 86400           \* the tests' time.Now().AddDate(0, 0, -1)

Epoch == 100000        \* the clock's first value
MaxMinutes == 1        \* the clock runs over Epoch .. Epoch + 60 * MaxMinutes + 1
MaxCalls == 2          \* Int() calls per generator
MaxLen == 2            \* characters of a field drawn for normalization alone

(***************************************************************************)
(* Bytes, characters and sequences.                                        *)
(***************************************************************************)
Rep(c, n) == [i \in 1..n |-> c]

Reverse(s) == [i \in 1..Len(s) |-> s[Len(s) + 1 - i]]

\* Go's integer division truncates toward zero.
goDiv(a, b) == IF a >= 0 THEN a \div b ELSE -((-a) \div b)

isDigit(c) == c >= 48 /\ c <= 57

\* encoding/hex fromHexChar and math/big's digit values: 0-9, a-f, A-F.
isHexChar(c) == isDigit(c) \/ (c >= 97 /\ c <= 102) \/ (c >= 65 /\ c <= 70)

hexVal(c) ==
    IF isDigit(c) THEN c - 48
    ELSE IF c >= 97 /\ c <= 102 THEN c - 97 + 10
    ELSE c - 65 + 10

\* The lower-case hexadecimal digit of a value 0..15.
hexChar(v) == IF v < 10 THEN 48 + v ELSE 97 + v - 10

\* strconv.FormatInt(n, 10) of a non-negative n.
RECURSIVE formatInt(_)
formatInt(n) ==
    IF n < 10 THEN <<48 + n>> ELSE Append(formatInt(n \div 10), 48 + (n % 10))

\* The bytes of a base-16 string of the given digit values, in lower case.
hexString(digits) == [i \in 1..Len(digits) |-> hexChar(digits[i])]

(***************************************************************************)
(* atoi (strconv.Atoi with the sentinel -1).                               *)
(***************************************************************************)
RECURSIVE decimalValue(_)
decimalValue(s) ==
    IF s = <<>> THEN 0
    ELSE 10 * decimalValue(SubSeq(s, 1, Len(s) - 1)) + (s[Len(s)] - 48)

atoi(a) ==
    LET signed == a # <<>> /\ (a[1] = 43 \/ a[1] = 45)
        digits == IF signed THEN Tail(a) ELSE a
        ok     == digits # <<>> /\ \A i \in 1..Len(digits) : isDigit(digits[i])
    IN  IF ~ok THEN -1
        ELSE IF signed /\ a[1] = 45 THEN -decimalValue(digits)
        ELSE decimalValue(digits)

(***************************************************************************)
(* math/big: a big.Int is [neg, mag], mag the base-16 digits, most         *)
(* significant first, without leading zeros (zero is the empty sequence).  *)
(***************************************************************************)
stripZeros(d) ==
    IF \A i \in 1..Len(d) : d[i] = 0 THEN <<>>
    ELSE SubSeq(d, CHOOSE i \in 1..Len(d) : d[i] # 0 /\ \A j \in 1..(i - 1) : d[j] = 0,
                Len(d))

bigInt(neg, digits) ==
    LET m == stripZeros(digits) IN [neg |-> neg /\ m # <<>>, mag |-> m]

bigZero == bigInt(FALSE, <<>>)

bigMinusOne == bigInt(TRUE, <<1>>)

\* A variant of setString that leaves the new(big.Int) value, zero, when the
\* parse fails.
setStringZeroSentinel(s) ==
    LET signed == s # <<>> /\ (s[1] = 43 \/ s[1] = 45)
        digits == IF signed THEN Tail(s) ELSE s
        ok     == digits # <<>> /\ \A i \in 1..Len(digits) : isHexChar(digits[i])
    IN  IF ~ok THEN bigZero
        ELSE bigInt(signed /\ s[1] = 45, [i \in 1..Len(digits) |-> hexVal(digits[i])])

\* setString(s, 16): big.Int.SetString, and the sentinel -1 when it fails.
setString(s) ==
    LET signed == s # <<>> /\ (s[1] = 43 \/ s[1] = 45)
        digits == IF signed THEN Tail(s) ELSE s
        ok     == digits # <<>> /\ \A i \in 1..Len(digits) : isHexChar(digits[i])
    IN  IF ~ok THEN bigMinusOne
        ELSE bigInt(signed /\ s[1] = 45, [i \in 1..Len(digits) |-> hexVal(digits[i])])

\* big.Int.Text(16): the value back in hexadecimal.
bigText(x) ==
    IF x.mag = <<>> THEN <<48>>
    ELSE (IF x.neg THEN <<45>> ELSE <<>>) \o hexString(x.mag)

\* Magnitude arithmetic on digit sequences: m - 1 (m > 0) and m + 1.
RECURSIVE magDec(_)
magDec(m) ==
    IF m[Len(m)] > 0 THEN [m EXCEPT ![Len(m)] = @ - 1]
    ELSE Append(magDec(SubSeq(m, 1, Len(m) - 1)), 15)

RECURSIVE magInc(_)
magInc(m) ==
    IF m = <<>> THEN <<1>>
    ELSE IF m[Len(m)] < 15 THEN [m EXCEPT ![Len(m)] = @ + 1]
    ELSE Append(magInc(SubSeq(m, 1, Len(m) - 1)), 0)

\* The magnitude shifted right by a multiple of four bits.
magRsh(m, bits) ==
    LET k == bits \div 4
    IN  IF Len(m) <= k THEN <<>> ELSE SubSeq(m, 1, Len(m) - k)

\* big.Int.Rsh(x, n): an arithmetic shift, floor(x / 2^n), also of a negative x.
bigRsh(x, bits) ==
    IF ~x.neg THEN bigInt(FALSE, magRsh(x.mag, bits))
    ELSE bigInt(TRUE, magInc(magRsh(stripZeros(magDec(x.mag)), bits)))

\* The low 64 bits of a magnitude, as 16 digits.
low64(m) ==
    IF Len(m) >= 16 THEN SubSeq(m, Len(m) - 15, Len(m))
    ELSE Rep(0, 16 - Len(m)) \o m

\* big.Int.Int64(): the low 64 bits, negated in two's complement when x < 0.
bigInt64(x) ==
    IF ~x.neg THEN low64(x.mag)
    ELSE low64(magInc([i \in 1..16 |-> 15 - low64(x.mag)[i]]))

(***************************************************************************)
(* encoding/hex and encoding/binary.                                       *)
(***************************************************************************)
\* hex.DecodeString: an error on a character that is no hex digit or on an
\* odd length, else the bytes.
hexDecodeString(s) ==
    IF (\E i \in 1..Len(s) : ~isHexChar(s[i])) \/ Len(s) % 2 = 1
    THEN [err |-> TRUE, bytes |-> <<>>]
    ELSE [err |-> FALSE,
          bytes |-> [i \in 1..(Len(s) \div 2) |->
                        16 * hexVal(s[2 * i - 1]) + hexVal(s[2 * i])]]

\* hex.EncodeToString, in lower case.
hexEncode(bytes) ==
    [i \in 1..(2 * Len(bytes)) |->
        IF i % 2 = 1 THEN hexChar(bytes[(i + 1) \div 2] \div 16)
        ELSE hexChar(bytes[i \div 2] % 16)]

\* binary.Write(b, binary.BigEndian, data) with data a Go string: a string is
\* no fixed-size value, so Write returns an error and writes nothing; the
\* caller drops the error.  The buffer is left as it was.
binaryWriteString(buf, data) == buf

\* What binary.Write appends for a fixed-size unsigned integer of `width` bytes.
RECURSIVE bigEndian(_, _)
bigEndian(v, width) ==
    IF width = 0 THEN <<>>
    ELSE Append(bigEndian(v \div 256, width - 1), v % 256)

(***************************************************************************)
(* The records.                                                            *)
(***************************************************************************)
zeroTime == [zero |-> TRUE, sec |-> 0]          \* time.Time{}

unixTime(sec) == [zero |-> FALSE, sec |-> sec]  \* time.Unix(sec, 0)

\* Record{}: the zero value of the type.
zeroRecord ==
    [Version |-> <<>>, Frequency |-> 0, TimeStamp |-> zeroTime,
     SeedValue |-> bigZero, PreviousOutputValue |-> bigZero,
     SignatureValue |-> bigZero, OutputValue |-> bigZero]

\* A variant of normalize that fills OutputValue from the seedValue element.
normalizeSwapped(drec) ==
    [Version |-> drec.Version,
     Frequency |-> atoi(drec.Frequency),
     TimeStamp |-> unixTime(atoi(drec.TimeStamp)),
     SeedValue |-> setString(drec.SeedValue),
     PreviousOutputValue |-> setString(drec.PreviousOutputValue),
     SignatureValue |-> setString(drec.SignatureValue),
     OutputValue |-> setString(drec.SeedValue)]

\* The typed Record getRecord builds from the decoded dirtyrecord.
normalize(drec) ==
    [Version |-> drec.Version,
     Frequency |-> atoi(drec.Frequency),
     TimeStamp |-> unixTime(atoi(drec.TimeStamp)),
     SeedValue |-> setString(drec.SeedValue),
     PreviousOutputValue |-> setString(drec.PreviousOutputValue),
     SignatureValue |-> setString(drec.SignatureValue),
     OutputValue |-> setString(drec.OutputValue)]

(***************************************************************************)
(* The signature.  The beacon's private key is modelled by a function of   *)
(* the signed bytes (a marker and a digest of them): a signature checks    *)
(* against the certificate exactly when it is the signature of those       *)
(* bytes.                                                                  *)
(***************************************************************************)
RECURSIVE weightedSum(_, _, _)
weightedSum(bytes, lo, hi) ==
    IF lo > hi THEN 0
    ELSE IF lo = hi THEN (lo * bytes[lo]) % 65521
    ELSE LET mid == (lo + hi) \div 2
         IN  (weightedSum(bytes, lo, mid) + weightedSum(bytes, mid + 1, hi)) % 65521

certSign(signed) ==
    LET h == weightedSum(signed, 1, Len(signed))
    IN  <<1, 2, Len(signed) % 256, h \div 256, h % 256>>

\* A variant of ValidateSignature that accepts every signature.
ValidateSignatureAny(signed, signature) == TRUE

\* ValidateSignature returns nil (TRUE) or an error (FALSE).
ValidateSignature(signed, signature) == signature = certSign(signed)

\* The in-place reversal loop of VerificationData:
\*   for i := 0; i <= sigLimit/2; i++ { swap signature[i], signature[sigLimit-i] }
\* over a 0-based slice held as a 1-based sequence.  An index outside the
\* slice is a run-time panic.
RECURSIVE reverseLoop(_, _, _)
reverseLoop(signature, i, sigLimit) ==
    IF ~(i <= goDiv(sigLimit, 2)) THEN [panic |-> FALSE, bytes |-> signature]
    ELSE IF i >= Len(signature) \/ sigLimit - i < 0 \/ sigLimit - i >= Len(signature)
         THEN [panic |-> TRUE, bytes |-> signature]
    ELSE reverseLoop([signature EXCEPT ![i + 1] = signature[sigLimit - i + 1],
                                       ![sigLimit - i + 1] = signature[i + 1]],
                     i + 1, sigLimit)

\* dirtyrecord.VerificationData: (signed, signature, err), or a panic.
VerificationData(d) ==
    LET sigDec == hexDecodeString(d.SignatureValue)
        rev    == reverseLoop(sigDec.bytes, 0, Len(sigDec.bytes) - 1)
        b1     == d.Version
        b2     == binaryWriteString(b1, d.Frequency)
        b3     == binaryWriteString(b2, d.TimeStamp)
        seed   == hexDecodeString(d.SeedValue)
        b4     == b3 \o seed.bytes
        prev   == hexDecodeString(d.PreviousOutputValue)
        b5     == b4 \o prev.bytes
        b6     == binaryWriteString(b5, d.StatusCode)
        fail   == [panic |-> FALSE, err |-> TRUE, signed |-> <<>>, signature |-> <<>>]
    IN  IF sigDec.err THEN fail
        ELSE IF rev.panic
             THEN [panic |-> TRUE, err |-> FALSE, signed |-> <<>>, signature |-> <<>>]
        ELSE IF seed.err THEN fail
        ELSE IF prev.err THEN fail
        ELSE [panic |-> FALSE, err |-> FALSE, signed |-> b6, signature |-> rev.bytes]

(***************************************************************************)
(* getRecord.  A transport outcome is [kind, d]: the GET failed, the body  *)
(* could not be read, the body is no well-formed XML, or it decoded to     *)
(* the dirtyrecord d (an absent element is the empty string).              *)
(***************************************************************************)
\* A variant of isStale that counts a record exactly 60 seconds old as stale.
isStaleOrExact(t, rec) == t - rec.TimeStamp.sec >= StaleSeconds

\* time.Now().Unix() - rec.TimeStamp.Unix() > 60
isStale(t, rec) == t - rec.TimeStamp.sec > StaleSeconds

failure(e) == [panic |-> FALSE, rec |-> zeroRecord, err |-> e]

\* getRecord at time t on transport outcome `body`: the pair (Record, error)
\* it returns (err "nil" is no error), or a panic.
getRecord(body, t) ==
    IF body.kind = "geterror" THEN failure("get")
    ELSE IF body.kind = "readerror" THEN failure("read")
    ELSE IF body.kind = "malformed" THEN failure("unmarshal")
    ELSE LET drec == body.d
             rec  == normalize(drec)
             vd   == VerificationData(drec)
         IN  IF vd.panic THEN [panic |-> TRUE, rec |-> zeroRecord, err |-> "panic"]
             ELSE IF vd.err THEN failure("extract")
             ELSE IF ~ValidateSignature(vd.signed, vd.signature) THEN failure("validate")
             ELSE IF isStale(t, rec) THEN failure("stale")
             ELSE [panic |-> FALSE, rec |-> rec, err |-> "nil"]

(***************************************************************************)
(* What the beacon can put on the wire.                                    *)
(***************************************************************************)
upper(s) == [i \in 1..Len(s) |-> IF s[i] >= 97 /\ s[i] <= 102 THEN s[i] - 32 ELSE s[i]]

lower(s) == [i \in 1..Len(s) |-> IF s[i] >= 65 /\ s[i] <= 70 THEN s[i] + 32 ELSE s[i]]

\* Seed values of 512 bits in hexadecimal (128 digits).  SeedA and SeedB share
\* their most significant 64 bits (top bit set) and differ in the low 448
\* bits; SeedC starts with zero digits.  The other values are shorter: the
\* code treats them by their characters alone.
SeedA == hexString(<<8, 7, 15, 2, 0, 11, 4, 9, 1, 0, 3, 12, 5, 5, 10, 14>> \o Rep(3, 112))

SeedB == hexString(<<8, 7, 15, 2, 0, 11, 4, 9, 1, 0, 3, 12, 5, 5, 10, 14>> \o Rep(12, 112))

SeedC == hexString(<<0, 0, 6, 1, 13, 0, 0, 2, 7, 7, 9, 4, 11, 8, 0, 5>> \o Rep(9, 112))

PrevA == upper(hexString(<<10, 1, 15, 0>> \o Rep(7, 12)))

OutA == hexString(<<5, 14>> \o Rep(2, 14))

OutZ == hexString(<<0, 0, 0, 4>> \o Rep(11, 12))

VersionA == <<86, 101, 114, 115, 105, 111, 110, 32, 49, 46, 48>>   \* "Version 1.0"

\* The record fields other than the signature.
Unsigned(version, frequency, timeStamp, seed, prev, out, status) ==
    [Version |-> version, Frequency |-> frequency, TimeStamp |-> timeStamp,
     SeedValue |-> seed, PreviousOutputValue |-> prev, SignatureValue |-> <<>>,
     OutputValue |-> out, StatusCode |-> status]

\* The bytes the beacon's protocol signs: version, frequency (4 bytes),
\* timeStamp (8 bytes), seedValue, previousOutputValue, statusCode (4 bytes),
\* the integers big-endian.
protocolPayload(d) ==
    d.Version \o bigEndian(atoi(d.Frequency), 4) \o bigEndian(atoi(d.TimeStamp), 8)
        \o hexDecodeString(d.SeedValue).bytes
        \o hexDecodeString(d.PreviousOutputValue).bytes
        \o bigEndian(atoi(d.StatusCode), 4)

\* The bytes VerificationData hands to the signature check.
checkedPayload(d) ==
    d.Version \o hexDecodeString(d.SeedValue).bytes
              \o hexDecodeString(d.PreviousOutputValue).bytes

\* A signature as the beacon sends it: hexadecimal, in the byte order
\* opposite to the one the certificate's check expects.
wireSignature(signed) == upper(hexEncode(Reverse(certSign(signed))))

\* The signatureValue elements a record u may come with: one that
\* VerificationData's payload checks against, the protocol's, one in the
\* check's own byte order, none, and one that is no hexadecimal.
Signatures(u) ==
    { wireSignature(checkedPayload(u)),
      wireSignature(protocolPayload(u)),
      hexEncode(certSign(checkedPayload(u))),
      <<>>,
      <<122, 122>> }

Envelopes ==
    { <<VersionA, <<54, 48>>, <<48>>>>,     \* "Version 1.0", "60", "0"
      <<<<>>, <<>>, <<>>>> }                \* none of the three

\* timeStamp elements at time t: 60 and 61 seconds old, a day old (the record
\* next after, and previous to, t - Day), in the future, absent.
TimeStamps(t) ==
    { formatInt(t - StaleSeconds), formatInt(t - StaleSeconds - 1),
      formatInt(t - Day + 60), formatInt(t - Day - 60),
      formatInt(t + StaleSeconds + 1), <<>> }

SeedValues == { SeedA, SeedC, <<>>, <<56>> }

PreviousOutputValues == { PrevA, <<>> }

OutputValues == { OutA, OutZ, <<>> }

\* The decoded bodies the transport can deliver at time t.
Records(t) ==
    UNION { { [u EXCEPT !.SignatureValue = sig] : sig \in Signatures(u) } :
            u \in { Unsigned(e[1], e[2], ts, seed, prev, out, e[3]) :
                      e \in Envelopes, ts \in TimeStamps(t), seed \in SeedValues,
                      prev \in PreviousOutputValues, out \in OutputValues } }

noRecord == Unsigned(<<>>, <<>>, <<>>, <<>>, <<>>, <<>>, <<>>)

\* The outcomes of defaultClient.Get, ioutil.ReadAll and xml.Unmarshal.
Bodies(t) ==
    { [kind |-> k, d |-> noRecord] : k \in {"geterror", "readerror", "malformed"} }
        \cup { [kind |-> "xml", d |-> d] : d \in Records(t) }

(***************************************************************************)
(* The state.                                                              *)
(***************************************************************************)
Gens == {"a", "b"}

\* The clock's values: each minute's first two seconds.
ClockPoints == { Epoch + StaleSeconds * k + j : k \in 0..MaxMinutes, j \in {0, 1} }

\* A Rand: the fields update and updateTime, and the engine *rand.Rand as the
\* seed of its source and the number of values drawn from it.  The other
\* fields record the object's history: how it was made, the SeedValue it was
\* last seeded from, whether the caller reseeded it, the Int() calls made,
\* the GETs the last call on it issued and the value Int() last returned.
noRand ==
    [made |-> "no", update |-> FALSE, updateTime |-> zeroTime,
     seed |-> Rep(0, 16), pos |-> 0,
     from |-> bigZero, reseeded |-> FALSE, calls |-> 0, gets |-> 0,
     err |-> "none",
     out |-> [seed |-> Rep(0, 16), n |-> 0]]

noCall == [op |-> "none", t |-> 0, at |-> 0]

noReturn == [done |-> FALSE, rec |-> zeroRecord, err |-> "nil"]

Init ==
    /\ now = Epoch
    /\ req = noCall
    /\ resp = [kind |-> "none", d |-> noRecord]
    /\ ret = noReturn
    /\ panicked = FALSE
    /\ rnd = [g \in Gens |-> noRand]

\* Time passes.  A lookup is a synchronous call: what it returned is observed
\* at the time of the call, and the clock moves between calls.
Tick ==
    /\ ~panicked
    /\ ~ret.done
    /\ \E t \in ClockPoints : t > now /\ now' = t
    /\ UNCHANGED <<req, resp, ret, panicked, rnd>>

(***************************************************************************)
(* The public lookups.  Each is one call of getRecord on its URL; the      *)
(* caller holds what it returned until it is done with it.                 *)
(***************************************************************************)
lookup(op, t) ==
    /\ ~panicked
    /\ ~ret.done
    /\ \E body \in Bodies(now) :
         LET r == getRecord(body, now)
         IN  /\ req' = [op |-> op, t |-> t, at |-> now]
             /\ resp' = body
             /\ IF r.panic
                THEN panicked' = TRUE /\ ret' = ret
                ELSE panicked' = FALSE /\ ret' = [done |-> TRUE, rec |-> r.rec, err |-> r.err]
    /\ UNCHANGED <<now, rnd>>

LastRecord == lookup("last", now)

CurrentRecord == lookup("current", now)

PreviousRecord == \E t \in {now, now - Day} : lookup("previous", t)

NextRecord == \E t \in {now, now - Day} : lookup("next", t)

StartChainRecord == lookup("start-chain", now)

\* The caller is done with the returned pair.
Done ==
    /\ ~panicked
    /\ ret.done
    /\ req' = noCall
    /\ resp' = [kind |-> "none", d |-> noRecord]
    /\ ret' = noReturn
    /\ UNCHANGED <<now, panicked, rnd>>

NextFetch ==
    \/ Tick
    \/ LastRecord
    \/ CurrentRecord
    \/ PreviousRecord
    \/ NextRecord
    \/ StartChainRecord
    \/ Done

FetchSpec == Init /\ [][NextFetch]_vars

(***************************************************************************)
(* Normalization alone: the Record built from a decoded dirtyrecord,       *)
(* whatever its fields hold.                                               *)
(***************************************************************************)
\* The characters fields are drawn from: "0", "1", "9", "a", "F", "g", "-",
\* "+" and the space.
Alphabet == {48, 49, 57, 97, 70, 103, 45, 43, 32}

Strings == UNION { [1..n -> Alphabet] : n \in 0..MaxLen }

ParsedFields ==
    {"Frequency", "TimeStamp", "SeedValue", "PreviousOutputValue",
     "SignatureValue", "OutputValue"}

\* The decoded records: a complete one with one parsed field replaced, and
\* the one with every element absent.
DecodedRecords ==
    { noRecord }
        \cup { [Unsigned(VersionA, <<54, 48>>, formatInt(Epoch), SeedA, PrevA, OutA, <<48>>)
                  EXCEPT ![f] = str] : f \in ParsedFields, str \in Strings }

\* xml.Unmarshal has filled drec.
Unmarshal ==
    /\ ~panicked
    /\ ~ret.done
    /\ resp.kind = "none"
    /\ \E d \in DecodedRecords : resp' = [kind |-> "xml", d |-> d]
    /\ req' = [op |-> "normalize", t |-> now, at |-> now]
    /\ UNCHANGED <<now, ret, panicked, rnd>>

\* rec := Record{...}
BuildRecord ==
    /\ ~panicked
    /\ ~ret.done
    /\ resp.kind = "xml"
    /\ ret' = [done |-> TRUE, rec |-> normalize(resp.d), err |-> "nil"]
    /\ UNCHANGED <<now, req, resp, panicked, rnd>>

NextNormalize ==
    \/ Unmarshal
    \/ BuildRecord
    \/ Done

NormSpec == Init /\ [][NextNormalize]_vars

(***************************************************************************)
(* The generator.                                                          *)
(***************************************************************************)
\* The generators NewUpdatedRand makes, and the seeds a caller hands SetSeed.
UpdatedGens == {"a"}

CallerSeeds == { <<0, 0, 0, 0, 0, 0, 0, 0, 0, 0, 0, 0, 0, 0, 2, 10>> }

\* The latest-record bodies the transport can deliver at time t.
LatestRecords(t) ==
    UNION { { [u EXCEPT !.SignatureValue = sig] :
                sig \in { wireSignature(checkedPayload(u)),
                          wireSignature(protocolPayload(u)) } } :
            u \in { Unsigned(VersionA, <<54, 48>>, ts, seed, PrevA, OutA, <<48>>) :
                      ts \in { formatInt(t), formatInt(t - StaleSeconds - 1) },
                      seed \in { SeedA, SeedC } } }

LatestBodies(t) ==
    { [kind |-> "geterror", d |-> noRecord] }
        \cup { [kind |-> "xml", d |-> d] : d \in LatestRecords(t) }

\* The Records a caller can hand to NewRand.
HeldRecords ==
    { zeroRecord }
        \cup { normalize(Unsigned(VersionA, <<54, 48>>, formatInt(Epoch), seed,
                                  PrevA, OutA, <<48>>)) :
                 seed \in { SeedA, SeedB, SeedC, <<>>, <<49, 50>> } }
        \cup { normalize(Unsigned(VersionA, <<54, 48>>, formatInt(Epoch), SeedA,
                                  PrevA, OutZ, <<48>>)) }

\* Variants of seedOf: without the shift, and from the OutputValue field.
seedOfLow(rec) == bigInt64(rec.SeedValue)

seedOfOutput(rec) == bigInt64(rec.OutputValue)

\* i.Rsh(&r.SeedValue, 448).Int64()
seedOf(rec) == bigInt64(bigRsh(rec.SeedValue, ShiftBits))

\* Rand.SetSeed: a new engine on a new source, and update switched off.
setSeed(r, n) == [r EXCEPT !.seed = n, !.pos = 0, !.update = FALSE]

\* NewRand.
newRand(rec) ==
    [setSeed([noRand EXCEPT !.made = "NewRand"], seedOf(rec)) EXCEPT !.from = rec.SeedValue]

\* A variant of refreshDue that does not look at the update flag.
refreshDueNoFlag(r, t) == r.updateTime.zero \/ t > r.updateTime.sec + Minute

\* r.update && time.Now().After(r.updateTime.Add(time.Minute * 1))
refreshDue(r, t) == r.update /\ (r.updateTime.zero \/ t > r.updateTime.sec + Minute)

\* r.rand.Int(): the next value of the engine's stream.
engineInt(r) ==
    [r EXCEPT !.pos = @ + 1, !.out = [seed |-> r.seed, n |-> r.pos + 1]]

NewRand(g) ==
    /\ ~panicked
    /\ rnd[g].made = "no"
    /\ \E rec \in HeldRecords : rnd' = [rnd EXCEPT ![g] = newRand(rec)]
    /\ UNCHANGED <<now, req, resp, ret, panicked>>

NewUpdatedRand(g) ==
    /\ ~panicked
    /\ rnd[g].made = "no"
    /\ \E body \in LatestBodies(now) :
         LET r == getRecord(body, now)
         IN  IF r.panic THEN panicked' = TRUE /\ rnd' = rnd
             ELSE /\ panicked' = FALSE
                  /\ IF r.err # "nil" THEN rnd' = rnd
                     ELSE rnd' = [rnd EXCEPT ![g] =
                                    [newRand(r.rec) EXCEPT !.made = "NewUpdatedRand",
                                                           !.update = TRUE,
                                                           !.updateTime = r.rec.TimeStamp,
                                                           !.gets = 1]]
    /\ UNCHANGED <<now, req, resp, ret>>

\* The caller reseeds the generator.
SetSeed(g) ==
    /\ ~panicked
    /\ rnd[g].made # "no"
    /\ ~rnd[g].reseeded
    /\ \E n \in CallerSeeds :
         rnd' = [rnd EXCEPT ![g] = [setSeed(rnd[g], n) EXCEPT !.reseeded = TRUE]]
    /\ UNCHANGED <<now, req, resp, ret, panicked>>

\* A variant of onRefreshError in which r.updateTime is assigned before err
\* is looked at.
onRefreshErrorAssigned(r, got) == [r EXCEPT !.updateTime = got.rec.TimeStamp]

\* The generator when Int panics on LastRecord's error: nothing of it has
\* been assigned.
onRefreshError(r, got) == r

\* Rand.Int.  gets and err record the call's LastRecord: whether it was made
\* and the error it returned.
Rand_Int(g) ==
    /\ ~panicked
    /\ rnd[g].made # "no"
    /\ rnd[g].calls < MaxCalls
    /\ LET r == [rnd[g] EXCEPT !.calls = @ + 1, !.gets = 0, !.err = "none"]
       IN  IF refreshDue(r, now)
           THEN \E body \in LatestBodies(now) :
                  LET got == getRecord(body, now)
                      f   == [r EXCEPT !.gets = 1,
                                       !.err = IF got.panic THEN "panic" ELSE got.err]
                  IN  IF got.panic \/ got.err # "nil"
                      THEN panicked' = TRUE /\ rnd' = [rnd EXCEPT ![g] = onRefreshError(f, got)]
                      ELSE /\ panicked' = FALSE
                           /\ rnd' = [rnd EXCEPT ![g] =
                                        engineInt([setSeed([f EXCEPT !.updateTime = got.rec.TimeStamp],
                                                           seedOf(got.rec))
                                                     EXCEPT !.from = got.rec.SeedValue])]
           ELSE panicked' = FALSE /\ rnd' = [rnd EXCEPT ![g] = engineInt(r)]
    /\ UNCHANGED <<now, req, resp, ret>>

NextRand ==
    \/ Tick
    \/ \E g \in Gens : NewRand(g)
    \/ \E g \in UpdatedGens : NewUpdatedRand(g)
    \/ \E g \in Gens : SetSeed(g)
    \/ \E g \in Gens : Rand_Int(g)

RandSpec == Init /\ [][NextRand]_vars

(***************************************************************************)
(* Properties of the retrieval pipeline (FetchSpec).                       *)
(***************************************************************************)
BigFields == {"SeedValue", "PreviousOutputValue", "SignatureValue", "OutputValue"}

isHexString(str) == str # <<>> /\ \A i \in 1..Len(str) : isHexChar(str[i])

\* The string without its leading "0" characters ("0" when nothing is left).
withoutLeadingZeros(str) ==
    IF \A i \in 1..Len(str) : str[i] = 48 THEN <<48>>
    ELSE SubSeq(str, CHOOSE i \in 1..Len(str) :
                         str[i] # 48 /\ \A j \in 1..(i - 1) : str[j] = 48,
                Len(str))

\* The signature on the wire is, byte-reversed, the certificate's signature
\* of the bytes VerificationData assembles from d.
SignatureChecks(d) ==
    /\ ~hexDecodeString(d.SignatureValue).err
    /\ ~hexDecodeString(d.SeedValue).err
    /\ ~hexDecodeString(d.PreviousOutputValue).err
    /\ Reverse(hexDecodeString(d.SignatureValue).bytes) = certSign(checkedPayload(d))

returned == ret.done /\ ret.err = "nil"

C2_PayloadCoversAllFields ==
    (resp.kind = "xml" /\ SignatureChecks(resp.d) /\ atoi(resp.d.Frequency) >= 0
        /\ atoi(resp.d.TimeStamp) >= 0 /\ atoi(resp.d.StatusCode) >= 0)
    => /\ VerificationData(resp.d).signed = protocolPayload(resp.d)
       /\ VerificationData([resp.d EXCEPT !.Frequency = <<54, 49>>]).signed
             # VerificationData([resp.d EXCEPT !.Frequency = <<54, 48>>]).signed
       /\ VerificationData([resp.d EXCEPT !.TimeStamp = formatInt(Epoch)]).signed
             # VerificationData([resp.d EXCEPT !.TimeStamp = formatInt(Epoch + 1)]).signed
       /\ VerificationData([resp.d EXCEPT !.StatusCode = <<48>>]).signed
             # VerificationData([resp.d EXCEPT !.StatusCode = <<49>>]).signed

\* C3: a well-formed body without a signatureValue element (as when the beacon
\* has no record to serve) makes getRecord return an error: no Record, and no
\* abort of the process.
C3_AbsentSignatureIsAnError ==
    (resp.kind = "xml" /\ resp.d.SignatureValue = <<>>)
    => (~panicked /\ ret.done /\ ret.err # "nil" /\ ret.rec = zeroRecord)

servedFor(op, t, d) ==
    LET ts == atoi(d.TimeStamp)
    IN  \/ op = "next" /\ t < ts /\ ts <= t + 60
        \/ op = "previous" /\ t - 60 <= ts /\ ts < t

\* Every element of the record is present.
complete(d) ==
    /\ d.Version # <<>> /\ d.Frequency # <<>> /\ d.TimeStamp # <<>>
    /\ d.SeedValue # <<>> /\ d.PreviousOutputValue # <<>>
    /\ d.SignatureValue # <<>> /\ d.OutputValue # <<>> /\ d.StatusCode # <<>>

\* C5: NextRecord(t) and PreviousRecord(t) for t a day in the past, answered
\* with the record the beacon holds for t under a signature that validates,
\* return that Record with a nil error.
C5_HistoricalLookupSucceeds ==
    (ret.done /\ req.op \in {"next", "previous"} /\ req.t = req.at - Day
        /\ resp.kind = "xml" /\ complete(resp.d) /\ SignatureChecks(resp.d)
        /\ servedFor(req.op, req.t, resp.d))
    => (ret.err = "nil" /\ ret.rec = normalize(resp.d))

\* C9 as stated: each big-integer field of a returned Record, formatted in
\* hexadecimal, is the hexadecimal string received (letter case aside).
C9_RoundTrip ==
    returned =>
        \A f \in BigFields :
            isHexString(resp.d[f]) => bigText(ret.rec[f]) = lower(resp.d[f])

\* C9 amended: each big-integer field of a returned Record received as a
\* non-empty hexadecimal string formats to that string without its leading
\* zero digits, in lower case, and parses back to the same integer; so the
\* string is reproduced (letter case aside) exactly when it has no leading
\* zero digit.
C9_RoundTripUpToLeadingZeros ==
    returned =>
        \A f \in BigFields :
            isHexString(resp.d[f]) =>
                /\ bigText(ret.rec[f]) = lower(withoutLeadingZeros(resp.d[f]))
                /\ setString(bigText(ret.rec[f])) = ret.rec[f]
                /\ (bigText(ret.rec[f]) = lower(resp.d[f]))
                      <=> (resp.d[f][1] # 48 \/ Len(resp.d[f]) = 1)

\* C9's case: a Record came back whose seed and output were received with
\* leading zero digits.
C9_Witness ==
    /\ returned
    /\ resp.d.SeedValue = SeedC
    /\ resp.d.OutputValue = OutZ
    /\ bigText(ret.rec.OutputValue) = SubSeq(OutZ, 4, Len(OutZ))

(***************************************************************************)
(* Properties of the generator (RandSpec).                                 *)
(***************************************************************************)
\* C6: a generator made by NewUpdatedRand, and not reseeded by its caller,
\* keeps its auto-update flag enabled whatever refreshes it has made.
C6_AutoUpdateStaysEnabled ==
    \A g \in Gens :
        (rnd[g].made = "NewUpdatedRand" /\ ~rnd[g].reseeded) => rnd[g].update

top64(x) ==
    IF x.neg THEN Rep(15, 16)
    ELSE SubSeq(Rep(0, 128 - Len(x.mag)) \o x.mag, 1, 16)

\* C8: a generator's engine is seeded with the most significant 64 bits of
\* the 512-bit SeedValue it was seeded from, a pattern with the top bit set
\* being a negative int64; SeedValues that agree on those bits give the same
\* seed whatever their low 448 bits.
C8_SeedIsTop64Bits ==
    \A g \in Gens :
        (rnd[g].made # "no" /\ ~rnd[g].reseeded) =>
            /\ rnd[g].seed = top64(rnd[g].from)
            /\ \A h \in Gens :
                 (rnd[h].made # "no" /\ ~rnd[h].reseeded
                     /\ top64(rnd[h].from) = top64(rnd[g].from))
                 => rnd[h].seed = rnd[g].seed

\* C8's case: two generators made from 512-bit seeds with the same top 64
\* bits (top bit set) and different low bits.
C8_Witness ==
    /\ rnd["a"].made = "NewRand" /\ rnd["a"].from = setString(SeedA)
    /\ rnd["b"].made = "NewRand" /\ rnd["b"].from = setString(SeedB)
    /\ rnd["a"].seed[1] >= 8
    /\ rnd["a"].seed = rnd["b"].seed

\* C10: two generators made by NewRand from Records with equal SeedValue,
\* neither reseeded, return the same value at each Int() call.
C10_SameSeedSameSequence ==
    \A g, h \in Gens :
        (rnd[g].made = "NewRand" /\ rnd[h].made = "NewRand"
            /\ ~rnd[g].reseeded /\ ~rnd[h].reseeded
            /\ rnd[g].from = rnd[h].from /\ rnd[g].calls = rnd[h].calls)
        => rnd[g].out = rnd[h].out

\* C10's case: both generators made from the same SeedValue have made two
\* calls.
C10_Witness ==
    /\ rnd["a"].made = "NewRand" /\ rnd["b"].made = "NewRand"
    /\ ~rnd["a"].reseeded /\ ~rnd["b"].reseeded
    /\ rnd["a"].from = setString(SeedA) /\ rnd["b"].from = setString(SeedA)
    /\ rnd["a"].calls = 2 /\ rnd["b"].calls = 2
    /\ rnd["a"].out.n = 2

(***************************************************************************)
(* Properties of normalization (NormSpec).                                 *)
(***************************************************************************)
\* A string has a value in the base when it is a non-empty run of the base's
\* digits after an optional sign.
signOf(str) == IF str # <<>> /\ str[1] = 45 THEN -1 ELSE 1

digitsOf(str) ==
    IF str # <<>> /\ (str[1] = 43 \/ str[1] = 45) THEN Tail(str) ELSE str

isDecimal(str) ==
    digitsOf(str) # <<>> /\ \A i \in 1..Len(digitsOf(str)) : digitsOf(str)[i] \in 48..57

isHexadecimal(str) == isHexString(digitsOf(str))

\* n is the base-10 value of str, told by writing n back in base 10.
isBase10ValueOf(n, str) ==
    /\ isDecimal(str)
    /\ (n < 0 => signOf(str) = -1)
    /\ (n > 0 => signOf(str) = 1)
    /\ formatInt(IF n < 0 THEN -n ELSE n) = withoutLeadingZeros(digitsOf(str))

\* x is the base-16 value of str, told by writing x back in base 16.
isBase16ValueOf(x, str) ==
    /\ isHexadecimal(str)
    /\ (x.neg => signOf(str) = -1)
    /\ (x.mag # <<>> /\ ~x.neg => signOf(str) = 1)
    /\ hexString(IF x.mag = <<>> THEN <<0>> ELSE x.mag)
          = withoutLeadingZeros(lower(digitsOf(str)))

\* C11: normalization is total.  For every decoded record the Record is
\* built: each integer field is the base-10 value of its string, or -1 when
\* the string has none, and each big-integer field is the base-16 value of
\* its string, or the big integer -1 when the string has none (the empty
\* string of an absent field included).
C11_NormalizationIsTotal ==
    /\ (req.op = "normalize" /\ resp.kind = "xml" /\ ~ret.done) => ENABLED BuildRecord
    /\ (req.op = "normalize" /\ ret.done) =>
          /\ ~panicked
          /\ ret.err = "nil"
          /\ ret.rec.Version = resp.d.Version
          /\ IF isDecimal(resp.d.Frequency)
             THEN isBase10ValueOf(ret.rec.Frequency, resp.d.Frequency)
             ELSE ret.rec.Frequency = -1
          /\ ~ret.rec.TimeStamp.zero
          /\ IF isDecimal(resp.d.TimeStamp)
             THEN isBase10ValueOf(ret.rec.TimeStamp.sec, resp.d.TimeStamp)
             ELSE ret.rec.TimeStamp.sec = -1
          /\ \A f \in BigFields :
                IF isHexadecimal(resp.d[f])
                THEN isBase16ValueOf(ret.rec[f], resp.d[f])
                ELSE ret.rec[f] = bigMinusOne

\* C11's case: a Record was built from the record with every element absent.
C11_Witness ==
    /\ req.op = "normalize"
    /\ ret.done
    /\ resp.d.SeedValue = <<>>
    /\ resp.d.Frequency = <<>>
    /\ ret.rec.SeedValue = bigMinusOne
    /\ ret.rec.Frequency = -1

(***************************************************************************)
(* Properties of the generator's refresh (RandSpec).                       *)
(***************************************************************************)
\* C12: when the LastRecord call inside Int() returns an error (a stale
\* latest record included), Int() panics and returns no value, and the
\* generator's updateTime, engine (seed and position), update flag and last
\* returned value are what they were before the call; an Int() call that
\* made the fetch and returned a value had a nil error from it.
C12_RefreshFailureIsFatal ==
    [][\A g \in Gens :
          (rnd'[g].calls = rnd[g].calls + 1 /\ rnd'[g].gets = 1) =>
              /\ rnd'[g].err # "nil" =>
                    /\ panicked'
                    /\ rnd'[g].out = rnd[g].out
                    /\ rnd'[g].updateTime = rnd[g].updateTime
                    /\ rnd'[g].seed = rnd[g].seed
                    /\ rnd'[g].pos = rnd[g].pos
                    /\ rnd'[g].update = rnd[g].update
                    /\ rnd'[g].from = rnd[g].from
              /\ ~panicked' => rnd'[g].err = "nil"]_vars

\* C12's case: a generator that had returned one value panicked in its next
\* Int() call on a stale latest record.
C12_Witness ==
    /\ panicked
    /\ rnd["a"].made = "NewUpdatedRand"
    /\ rnd["a"].calls = 2
    /\ rnd["a"].gets = 1
    /\ rnd["a"].err = "stale"
    /\ rnd["a"].pos = 1
    /\ rnd["a"].out.n = 1
    /\ rnd["a"].update

(***************************************************************************)
(* Sentinels in returned Records (FetchSpec).                              *)
(***************************************************************************)
\* The fields of a Record that hold the sentinel -1.
sentinelFields(rec) ==
    { f \in BigFields : rec[f] = bigMinusOne }
        \cup (IF rec.Frequency = -1 THEN {"Frequency"} ELSE {})
        \cup (IF ~rec.TimeStamp.zero /\ rec.TimeStamp.sec = -1 THEN {"TimeStamp"} ELSE {})

\* C13: no Record that getRecord returns with a nil error holds the sentinel
\* -1 in Frequency, TimeStamp, SeedValue, PreviousOutputValue, SignatureValue
\* or OutputValue: a response with a field that did not parse is rejected by
\* the signature or the staleness check.
C13_NoSentinelIsReturned == returned => sentinelFields(ret.rec) = {}


=============================================================================
